---- MODULE Spec2Model ----
(***************************************************************************)
(* Model of the CML optimisation service: the inspection schedule          *)
(* calculation, the dataframe validation and the override store of         *)
(* app/utils.py, the scoring endpoint of app/main.py, and the forecast and *)
(* report endpoints of app/main_enhanced.py.  Each part has its own        *)
(* specification over the same variables; the variables of the other parts *)
(* stay at their initial values.                                           *)
(*                                                                         *)
(* Python floats are modelled as exact rationals <<numerator, denominator>>*)
(* in lowest terms with a positive denominator; on the input grid below    *)
(* the exact results (rounded values, months, days, risk levels) are those *)
(* of the float computation.  Dates are day numbers.                       *)
(***************************************************************************)
EXTENDS Integers, Sequences, FiniteSets, TLC

VARIABLES now, record, params, outcome, frame, schedule, prior, df, validation,
          model, request, response, file, log, last, writers, reader,
          scored, report, forecast_df, forecast_response

scheduleVars == <<now, record, params, outcome, frame, schedule, prior>>
dataVars == <<df, validation>>
apiVars == <<model, request, response>>
storeVars == <<file, log, last, writers, reader>>
batchVars == <<scored, report, forecast_df, forecast_response>>
vars == <<now, record, params, outcome, frame, schedule, prior, df, validation,
          model, request, response, file, log, last, writers, reader,
          scored, report, forecast_df, forecast_response>>

-----------------------------------------------------------------------------
(* Bounds of the model *)

MaxThickness == 13
MaxRateTenths == 13
MaxDay == 1
MaxRows == 2
MaxId == 2

-----------------------------------------------------------------------------
(* Rational arithmetic standing for float arithmetic *)

Abs(n) == IF n < 0 THEN -n ELSE n

RECURSIVE GCD(_, _)
GCD(a, b) == IF b = 0 THEN a ELSE GCD(b, a % b)

Rat(n, d) ==
    LET s == IF d < 0 THEN -1 ELSE 1
        g == GCD(Abs(n), Abs(d))
    IN  <<(s * n) \div g, (s * d) \div g>>

FromInt(n) == <<n, 1>>

RSub(x, y) == Rat(x[1] * y[2] - y[1] * x[2], x[2] * y[2])
RMul(x, y) == Rat(x[1] * y[1], x[2] * y[2])
RDiv(x, y) == Rat(x[1] * y[2], x[2] * y[1])
RLt(x, y) == x[1] * y[2] < y[1] * x[2]
RLe(x, y) == x[1] * y[2] <= y[1] * x[2]

\* Python's min(a, b) and max(a, b): the first argument unless the second is
\* strictly smaller (larger).
PyMin(a, b) == IF RLt(b, a) THEN b ELSE a
PyMax(a, b) == IF RLt(a, b) THEN b ELSE a

Floor(x) == IF x[1] >= 0 THEN x[1] \div x[2] ELSE -(((-x[1]) + x[2] - 1) \div x[2])

\* Python's int(x): truncation toward zero.
PyInt(x) == IF x[1] >= 0 THEN x[1] \div x[2] ELSE -((-x[1]) \div x[2])

\* Python's round(x, n) with scale = 10^n: to the nearest, a tie to the even
\* neighbour.
PyRound(x, scale) ==
    LET y == RMul(x, FromInt(scale))
        lo == Floor(y)
        twice == RSub(RMul(y, FromInt(2)), FromInt(2 * lo))
    IN  IF RLt(twice, FromInt(1)) THEN Rat(lo, scale)
        ELSE IF RLt(FromInt(1), twice) THEN Rat(lo + 1, scale)
        ELSE IF lo % 2 = 0 THEN Rat(lo, scale)
        ELSE Rat(lo + 1, scale)

-----------------------------------------------------------------------------
(* calculate_inspection_schedule *)

\* The life reported when the corrosion rate is not positive.
MAX_LIFE == 50

\* Variant: only a negative rate takes the ceiling, a zero rate gets the
\* 999.9 sentinel of scripts/generate_500_row_dataset.py.
RemainingLife_ZeroRateSentinel(corrosion_rate, thickness, min_thickness) ==
    LET available_thickness == RSub(thickness, min_thickness)
    IN  IF corrosion_rate[1] < 0 THEN FromInt(MAX_LIFE)
        ELSE IF corrosion_rate[1] = 0 THEN Rat(9999, 10)
        ELSE RDiv(available_thickness, corrosion_rate)

RemainingLife(corrosion_rate, thickness, min_thickness) ==
    LET available_thickness == RSub(thickness, min_thickness)
    IN  IF RLe(corrosion_rate, FromInt(0)) THEN FromInt(MAX_LIFE)
        ELSE RDiv(available_thickness, corrosion_rate)

\* Variant: the upper cap only, without the floor of one year.
InspectionIntervalYears_NoFloor(remaining_life_years, safety_factor) ==
    PyMin(RDiv(remaining_life_years, safety_factor), FromInt(6))

\* Variant: the remaining life multiplied by the safety factor.
InspectionIntervalYears_Multiplied(remaining_life_years, safety_factor) ==
    PyMax(FromInt(1), PyMin(RMul(remaining_life_years, safety_factor), FromInt(6)))

InspectionIntervalYears(remaining_life_years, safety_factor) ==
    PyMax(FromInt(1), PyMin(RDiv(remaining_life_years, safety_factor), FromInt(6)))

\* Variant: the months rounded to the nearest integer instead of truncated.
IntervalMonths_Rounded(inspection_interval_years) ==
    PyRound(RMul(inspection_interval_years, FromInt(12)), 1)[1]

\* int(inspection_interval_years * 12)
IntervalMonths(inspection_interval_years) ==
    PyInt(RMul(inspection_interval_years, FromInt(12)))

\* int(inspection_interval_years * 365)
IntervalDays(inspection_interval_years) ==
    PyInt(RMul(inspection_interval_years, FromInt(365)))

\* datetime.now() + timedelta(days)
NextInspection(today, days) == today + days

\* Variant: the ladder read on the life rounded to one decimal.
RiskLevel_OfRounded(remaining_life_years) ==
    LET rounded == PyRound(remaining_life_years, 10)
    IN  IF RLt(rounded, FromInt(2)) THEN "CRITICAL"
        ELSE IF RLt(rounded, FromInt(5)) THEN "HIGH"
        ELSE IF RLt(rounded, FromInt(10)) THEN "MEDIUM"
        ELSE "LOW"

\* Variant: the thresholds compared with <= instead of <.
RiskLevel_Inclusive(remaining_life_years) ==
    IF RLe(remaining_life_years, FromInt(2)) THEN "CRITICAL"
    ELSE IF RLe(remaining_life_years, FromInt(5)) THEN "HIGH"
    ELSE IF RLe(remaining_life_years, FromInt(10)) THEN "MEDIUM"
    ELSE "LOW"

RiskLevel(remaining_life_years) ==
    IF RLt(remaining_life_years, FromInt(2)) THEN "CRITICAL"
    ELSE IF RLt(remaining_life_years, FromInt(5)) THEN "HIGH"
    ELSE IF RLt(remaining_life_years, FromInt(10)) THEN "MEDIUM"
    ELSE "LOW"

\* Variant: the projection made over the whole months reported, months / 12.
EstimatedThickness_WholeMonths(thickness, corrosion_rate, inspection_interval_years) ==
    RSub(thickness,
         RMul(corrosion_rate,
              Rat(PyInt(RMul(inspection_interval_years, FromInt(12))), 12)))

EstimatedThickness(thickness, corrosion_rate, inspection_interval_years) ==
    RSub(thickness, RMul(corrosion_rate, inspection_interval_years))

-----------------------------------------------------------------------------
(* validate_cml_dataframe *)

required_columns ==
    {"id_number", "average_corrosion_rate", "thickness_mm",
     "commodity", "feature_type", "cml_shape"}

\* NaN, the mean of no values
NaN == <<0, 0>>

RECURSIVE SumOf(_, _)
SumOf(rows, column) ==
    IF rows = <<>> THEN 0
    ELSE rows[1][column] + SumOf(Tail(rows), column)

\* Series.mean() of a column held in tenths
MeanOf(rows, column) ==
    IF rows = <<>> THEN NaN ELSE Rat(SumOf(rows, column), 10 * Len(rows))

\* Series.duplicated(): the rows whose id_number occurred in an earlier row
RECURSIVE DuplicatedFrom(_, _)
DuplicatedFrom(rows, i) ==
    IF i > Len(rows) THEN <<>>
    ELSE IF \E j \in 1..(i - 1) : rows[j].id_number = rows[i].id_number
         THEN <<rows[i].id_number>> \o DuplicatedFrom(rows, i + 1)
         ELSE DuplicatedFrom(rows, i + 1)

Duplicates(rows) == DuplicatedFrom(rows, 1)

FirstFive(s) == SubSeq(s, 1, IF Len(s) < 5 THEN Len(s) ELSE 5)

\* Series.value_counts().to_dict()
ValueCounts(rows, column) ==
    [v \in {rows[i][column] : i \in DOMAIN rows} |->
        Cardinality({i \in DOMAIN rows : rows[i][column] = v})]

\* rate < 0 or rate > 5.0, the rate in tenths
UnusualRate(row) ==
    row.average_corrosion_rate < 0 \/ row.average_corrosion_rate > 50

\* thickness <= 0 or thickness > 50, the thickness in tenths
UnusualThickness(row) == row.thickness_mm <= 0 \/ row.thickness_mm > 500

\* len(invalid_corr), len(invalid_thick)
InvalidCorr(rows) == Cardinality({i \in DOMAIN rows : UnusualRate(rows[i])})

InvalidThick(rows) == Cardinality({i \in DOMAIN rows : UnusualThickness(rows[i])})

NoStats == <<>>

\* Variant: repeated ids go unreported.
DuplicateWarnings_Dropped(duplicates) == <<>>

\* lines 32-34: one warning listing the first five repeated ids
DuplicateWarnings(duplicates) ==
    IF duplicates # <<>>
    THEN <<[kind |-> "duplicate_ids", ids |-> FirstFive(duplicates)]>>
    ELSE <<>>

validate_cml_dataframe(d) ==
    LET missing_cols == required_columns \ d.columns
        rows == d.rows
        duplicates == Duplicates(rows)
        invalid_corr == InvalidCorr(rows)
        invalid_thick == InvalidThick(rows)
    IN  IF missing_cols # {}
        THEN [valid |-> FALSE,
              errors |-> <<[kind |-> "missing_columns", columns |-> missing_cols]>>,
              warnings |-> <<>>,
              stats |-> NoStats]
        ELSE [valid |-> TRUE,
              errors |-> <<>>,
              warnings |->
                  DuplicateWarnings(duplicates)
                  \o (IF invalid_corr > 0
                          THEN <<[kind |-> "unusual_corrosion_rates",
                                  count |-> invalid_corr]>>
                          ELSE <<>>)
                  \o (IF invalid_thick > 0
                          THEN <<[kind |-> "unusual_thickness", count |-> invalid_thick]>>
                          ELSE <<>>),
              stats |->
                  [total_records |-> Len(rows),
                   unique_cmls |-> Cardinality({rows[i].id_number : i \in DOMAIN rows}),
                   avg_corrosion_rate |-> MeanOf(rows, "average_corrosion_rate"),
                   avg_thickness |-> MeanOf(rows, "thickness_mm"),
                   commodity_distribution |-> ValueCounts(rows, "commodity"),
                   feature_type_distribution |-> ValueCounts(rows, "feature_type")]]

-----------------------------------------------------------------------------
(* Inputs *)

NoDate == -1

Thicknesses == {FromInt(k) : k \in 0..MaxThickness}
\* tenths of a mm/year, and one rate between two tenths (1.01 mm/year)
CorrosionRates == {Rat(k, 10) : k \in -1..MaxRateTenths} \cup {Rat(101, 100)}
MinThicknesses == {FromInt(3), Rat(5, 2)}
SafetyFactors == {FromInt(0), FromInt(1), Rat(3, 2), FromInt(9)}
InspectionDates == {NoDate, 0}

NoFrame ==
    [today |-> NoDate,
     remaining_life_years |-> FromInt(0),
     inspection_interval_years |-> FromInt(0)]

NoSchedule ==
    [remaining_life_years |-> FromInt(0),
     inspection_interval_months |-> 0,
     next_inspection_date |-> NoDate,
     risk_level |-> "NONE",
     estimated_thickness_at_next_inspection |-> FromInt(0)]

\* Rows of an uploaded dataset; rate and thickness in tenths.
Rows ==
    [id_number : 1..MaxId,
     average_corrosion_rate : {-1, 1, 51},
     thickness_mm : {0, 100},
     commodity : {"Crude Oil"},
     feature_type : {"Pipe"}]

RowSeqs == UNION {[1..n -> Rows] : n \in 0..MaxRows}

ColumnSets ==
    {required_columns, required_columns \cup {"last_inspection_date"}}
        \cup {required_columns \ {c} : c \in required_columns}

NoFrameLoaded == [columns |-> {}, rows |-> <<>>]

NoValidation == [valid |-> FALSE, errors |-> <<>>, warnings |-> <<>>, stats |-> NoStats]

-----------------------------------------------------------------------------
(* The override store of app/utils.py: records, file and functions *)

\* The longest sequence of adds and the number of concurrent writers
MaxAdds == 2
MaxWriters == 2

\* override_date values: a datetime object, its ISO string, or no such key
DateTime(t) == [type |-> "datetime", iso |-> t]
IsoString(t) == [type |-> "str", iso |-> t]
NoOverrideDate == [type |-> "absent", iso |-> 0]

\* len(reason) of the reasons of the model
ReasonLength(reason) ==
    CASE reason = "too short" -> 9
      [] reason = "remeasured on site" -> 18
      [] OTHER -> 0

Override(id_number, sme_decision, reason, sme_name, override_date) ==
    [id_number |-> id_number, sme_decision |-> sme_decision, reason |-> reason,
     sme_name |-> sme_name, override_date |-> override_date,
     original_prediction |-> "ELIMINATE", original_probability |-> 90]

\* The records submitted: well-formed ones for every id and decision, and on
\* id 1 an unknown decision, a short reason, a date already a string, no date.
Overrides ==
    {Override(id, decision, "remeasured on site", 1, DateTime(0)) :
         id \in 1..MaxId, decision \in {"KEEP", "ELIMINATE"}}
    \cup {Override(1, "MAYBE", "remeasured on site", 1, DateTime(0)),
          Override(1, "KEEP", "too short", 1, DateTime(0)),
          Override(1, "KEEP", "remeasured on site", 1, IsoString(0)),
          Override(1, "ELIMINATE", "remeasured on site", 1, NoOverrideDate)}

\* The override file: absent, holding the complete JSON text of a list, or
\* truncated (opened for writing and not completely written: empty or a
\* prefix of the JSON text).
AbsentFile == [state |-> "absent", records |-> <<>>]
CompleteFile(overrides) == [state |-> "complete", records |-> overrides]
TruncatedFile == [state |-> "truncated", records |-> <<>>]

\* load_sme_overrides(override_file): [] for an absent file, the list of a
\* complete one; json.load raises on an empty or cut-off text.
load_sme_overrides(override_file) ==
    IF override_file.state = "absent"
    THEN [raised |-> FALSE, overrides |-> <<>>]
    ELSE IF override_file.state = "complete"
    THEN [raised |-> FALSE, overrides |-> override_file.records]
    ELSE [raised |-> TRUE, overrides |-> <<>>]

\* override_data after lines 89-90: a datetime override_date is replaced in
\* the caller's dictionary by its isoformat() string.
IsoFormatted(override_data) ==
    IF override_data.override_date.type = "datetime"
    THEN [override_data EXCEPT !.override_date = IsoString(@.iso)]
    ELSE override_data

RECURSIVE ReplacedFrom(_, _, _)
ReplacedFrom(overrides, override_data, i) ==
    IF i > Len(overrides)
    THEN Append(overrides, override_data)
    ELSE IF overrides[i].id_number = override_data.id_number
    THEN [overrides EXCEPT ![i] = override_data]
    ELSE ReplacedFrom(overrides, override_data, i + 1)

\* A store keyed by id: a record of the same id_number is overwritten.
Appended_ReplaceSameId(overrides, override_data) ==
    ReplacedFrom(overrides, override_data, 1)

\* overrides.append(override_data)
Appended(overrides, override_data) == Append(overrides, override_data)

\* I/O faults of one call: none, the file cannot be read, the directory or
\* the file cannot be opened for writing, the dump fails after the open.
Faults == {"none", "read", "open", "write"}

\* A failing dump goes unreported.
WriteRaises_Swallowed(fault) == FALSE

\* json.dump or the closing flush raises
WriteRaises(fault) == fault = "write"

\* save_sme_override(override_data, override_file) under the given fault:
\* the file afterwards, whether the call raised, and the caller's dictionary
\* afterwards.
save_sme_override(override_data, override_file, fault) ==
    LET loaded == load_sme_overrides(override_file)
        data == IsoFormatted(override_data)
        overrides == Appended(loaded.overrides, data)
    IN  IF fault = "read" \/ loaded.raised
        THEN [file |-> override_file, raised |-> TRUE, override_data |-> override_data]
        ELSE IF fault = "open"
        THEN [file |-> override_file, raised |-> TRUE, override_data |-> data]
        ELSE IF WriteRaises(fault)
        THEN [file |-> TruncatedFile, raised |-> TRUE, override_data |-> data]
        ELSE [file |-> CompleteFile(overrides), raised |-> FALSE,
              override_data |-> data]

\* The SMEOverride schema: sme_decision matches ^(KEEP|ELIMINATE)$ and the
\* reason has at least 10 characters.
SMEOverride(override) ==
    /\ override.sme_decision \in {"KEEP", "ELIMINATE"}
    /\ ReasonLength(override.reason) >= 10

\* No add has been called, no writer has started, nothing has been read.
NoCall ==
    [outcome |-> "none", fault |-> "none",
     submitted |-> Override(1, "KEEP", "remeasured on site", 1, NoOverrideDate),
     override_data |-> Override(1, "KEEP", "remeasured on site", 1, NoOverrideDate)]

Writers == 1..MaxWriters

NoWriter == [pc |-> "start", overrides |-> <<>>]

NoRead == [pc |-> "start", raised |-> FALSE, overrides |-> <<>>]

StoreIdle ==
    /\ file = AbsentFile
    /\ log = <<>>
    /\ last = NoCall
    /\ writers = [w \in Writers |-> NoWriter]
    /\ reader = NoRead

-----------------------------------------------------------------------------
(* States before any operation *)

\* No report and no forecast has been produced.
NoReport ==
    [status |-> 0,
     summary |-> [total_cmls |-> 0, recommended_eliminations |-> 0,
                  recommended_keep |-> 0, elimination_rate |-> <<0, 1>>],
     top_elimination_candidates |-> <<>>,
     marginal_cases |-> <<>>]

NoSummary ==
    [total_cmls |-> 0, avg_remaining_life_years |-> <<0, 1>>,
     risk_distribution |-> [CRITICAL |-> 0, HIGH |-> 0, MEDIUM |-> 0, LOW |-> 0],
     inspections_needed_next_12_months |-> 0]

NoForecastResponse == [status |-> 0, forecasts |-> <<>>, summary |-> NoSummary]

BatchIdle ==
    /\ scored = <<>>
    /\ report = NoReport
    /\ forecast_df = <<>>
    /\ forecast_response = NoForecastResponse

\* The request and response of the scoring API before any request, with
\* no trained model on disk (main.py line 65).
NoRequest == [path |-> "", filename |-> "", body |-> "none"]

NoResponse ==
    [status |-> 0, error |-> "", missing |-> {}, rows_scored |-> 0,
     results |-> <<>>, total_results |-> 0, rows |-> 0, columns |-> {},
     validation |-> NoValidation]

ApiIdle ==
    /\ model = "None"
    /\ request = NoRequest
    /\ response = NoResponse

\* One fixed record that has not been scheduled, for the specifications that
\* do not exercise calculate_inspection_schedule.
ScheduleIdle ==
    /\ now = 0
    /\ record = [thickness_mm |-> FromInt(10),
                 average_corrosion_rate |-> Rat(1, 10),
                 last_inspection_date |-> NoDate]
    /\ params = [min_thickness |-> FromInt(3), safety_factor |-> Rat(3, 2)]
    /\ outcome = "none"
    /\ frame = NoFrame
    /\ schedule = NoSchedule
    /\ prior = <<>>

Init ==
    /\ BatchIdle
    /\ ApiIdle
    /\ StoreIdle
    /\ df = NoFrameLoaded
    /\ validation = NoValidation
    /\ now = 0
    /\ record \in [thickness_mm : Thicknesses,
                   average_corrosion_rate : CorrosionRates,
                   last_inspection_date : InspectionDates]
    /\ params \in [min_thickness : MinThicknesses, safety_factor : SafetyFactors]
    /\ outcome = "none"
    /\ frame = NoFrame
    /\ schedule = NoSchedule
    /\ prior = <<>>

\* The clock advances by a day.
Tick ==
    /\ now < MaxDay
    /\ now' = now + 1
    /\ UNCHANGED <<record, params, outcome, frame, schedule, prior, dataVars, apiVars, storeVars, batchVars>>

\* calculate_inspection_schedule(record rate, record thickness, min_thickness,
\* safety_factor) returning its dictionary.  The record's last inspection
\* date is not among the parameters.
CalculateInspectionSchedule ==
    /\ outcome = "none"
    /\ params.safety_factor[1] # 0
    /\ LET corrosion_rate == record.average_corrosion_rate
           thickness == record.thickness_mm
           remaining_life_years ==
               RemainingLife(corrosion_rate, thickness, params.min_thickness)
           inspection_interval_years ==
               InspectionIntervalYears(remaining_life_years, params.safety_factor)
           estimate ==
               EstimatedThickness(thickness, corrosion_rate, inspection_interval_years)
       IN  /\ frame' = [today |-> now,
                        remaining_life_years |-> remaining_life_years,
                        inspection_interval_years |-> inspection_interval_years]
           /\ schedule' =
                  [remaining_life_years |-> PyRound(remaining_life_years, 10),
                   inspection_interval_months |->
                       IntervalMonths(inspection_interval_years),
                   next_inspection_date |->
                       NextInspection(now, IntervalDays(inspection_interval_years)),
                   risk_level |-> RiskLevel(remaining_life_years),
                   estimated_thickness_at_next_inspection |-> PyRound(estimate, 100)]
    /\ outcome' = "returned"
    /\ UNCHANGED <<now, record, params, prior, dataVars, apiVars, storeVars, batchVars>>

\* calculate_inspection_schedule with safety_factor = 0: the division at
\* line 115 raises ZeroDivisionError and nothing is returned.
CalculateRaises ==
    /\ outcome = "none"
    /\ params.safety_factor[1] = 0
    /\ outcome' = "raised"
    /\ UNCHANGED <<now, record, params, frame, schedule, prior, dataVars, apiVars, storeVars, batchVars>>

\* The same location is measured again with a corrosion rate that is not
\* lower; the previous call is remembered for comparison.
Remeasure(rate) ==
    /\ outcome = "returned"
    /\ RLe(record.average_corrosion_rate, rate)
    /\ prior' = <<[corrosion_rate |-> record.average_corrosion_rate,
                   schedule |-> schedule]>>
    /\ record' = [record EXCEPT !.average_corrosion_rate = rate]
    /\ outcome' = "none"
    /\ frame' = NoFrame
    /\ schedule' = NoSchedule
    /\ UNCHANGED <<now, params, dataVars, apiVars, storeVars, batchVars>>

Next ==
    \/ Tick
    \/ CalculateInspectionSchedule
    \/ CalculateRaises
    \/ \E rate \in CorrosionRates : Remeasure(rate)

Spec == Init /\ [][Next]_vars

-----------------------------------------------------------------------------
(* Uploading and validating datasets *)

InitValidate ==
    /\ BatchIdle
    /\ ApiIdle
    /\ StoreIdle
    /\ df = NoFrameLoaded
    /\ validation = NoValidation
    /\ now = 0
    /\ record = [thickness_mm |-> FromInt(10),
                 average_corrosion_rate |-> Rat(1, 10),
                 last_inspection_date |-> NoDate]
    /\ params = [min_thickness |-> FromInt(3), safety_factor |-> Rat(3, 2)]
    /\ outcome = "none"
    /\ frame = NoFrame
    /\ schedule = NoSchedule
    /\ prior = <<>>

\* A file is read into a dataframe.
Upload(columns, rows) ==
    /\ df = NoFrameLoaded
    /\ df' = [columns |-> columns, rows |-> rows]
    /\ validation' = NoValidation
    /\ UNCHANGED <<scheduleVars, apiVars, storeVars, batchVars>>

\* validation = validate_cml_dataframe(df)
Validate ==
    /\ df # NoFrameLoaded
    /\ validation' = validate_cml_dataframe(df)
    /\ UNCHANGED <<df, scheduleVars, apiVars, storeVars, batchVars>>

NextValidate ==
    \/ /\ df = NoFrameLoaded
       /\ \E columns \in ColumnSets, rows \in RowSeqs : Upload(columns, rows)
    \/ Validate

SpecValidate == InitValidate /\ [][NextValidate]_vars

-----------------------------------------------------------------------------
(* The scoring endpoint of app/main.py *)

REQUIRED_COLUMNS ==
    {"id_number", "average_corrosion_rate", "thickness_mm", "commodity",
     "feature_type", "cml_shape", "last_inspection_date", "next_inspection_date"}

FEATURE_COLUMNS ==
    {"average_corrosion_rate", "thickness_mm", "commodity", "feature_type",
     "cml_shape"}

ALLOWED_EXTENSIONS == {".csv", ".xlsx", ".xls"}

\* Path(filename).suffix.lower() on the file names of the model
Suffix(filename) ==
    CASE filename = "cml.csv" -> ".csv"
      [] filename = "CML.XLSX" -> ".xlsx"
      [] filename = "cml.txt" -> ".txt"
      [] OTHER -> ""

Filenames == {"", "cml.txt", "cml.csv", "CML.XLSX"}

\* What the bytes of the uploaded file are to the parser: no data at all
\* (EmptyDataError), malformed (ParserError), or a table held in df.
Bodies == {"empty", "garbled", "table"}

\* Rows of a scored file: the id and the last inspection date (NoDate for a
\* missing or unparseable value); the feature values are opaque to the handler.
ScoreRows == [id_number : 1..MaxId, last_inspection_date : InspectionDates]

\* A scored file longer than the 100 results of a response; every row has
\* its own id.
LongFile ==
    [i \in 1..(100 + 1) |-> [id_number |-> i, last_inspection_date |-> NoDate]]

ScoreRowSeqs == UNION {[1..n -> ScoreRows] : n \in 0..MaxRows} \cup {LongFile}

ScoreColumnSets ==
    {REQUIRED_COLUMNS,
     REQUIRED_COLUMNS \ {"last_inspection_date", "next_inspection_date"}}
    \cup {REQUIRED_COLUMNS \ {c} :
              c \in {"last_inspection_date", "next_inspection_date",
                     "cml_shape", "id_number"}}

\* What model.predict and model.predict_proba give for one row: the flag and
\* the probability of elimination in percent.
Scores ==
    {[flag |-> 0, probability |-> 10], [flag |-> 0, probability |-> 40],
     [flag |-> 1, probability |-> 60], [flag |-> 1, probability |-> 90]}

\* The outcomes of the prediction calls on n rows: an exception or one score
\* for each row.
Predictions(n) ==
    {[raised |-> TRUE, scores |-> <<>>]}
    \cup {[raised |-> FALSE, scores |-> scores] :
              scores \in IF n <= MaxRows
                         THEN [1..n -> Scores]
                         ELSE {[i \in 1..n |-> score] : score \in Scores}
                              \cup {[i \in 1..n |->
                                        IF i % 2 = 1
                                        THEN [flag |-> 1, probability |-> 90]
                                        ELSE [flag |-> 0, probability |-> 10]]}}

HTTPException(status_code, error, missing) ==
    [NoResponse EXCEPT !.status = status_code, !.error = error,
                       !.missing = missing]

\* Variant: the results list is returned whole.
First100_Whole(results) == results

\* results[:100]
First100(results) ==
    SubSeq(results, 1, IF Len(results) < 100 THEN Len(results) ELSE 100)

\* One entry of the results list (main.py lines 287-293)
ScoreResult(row, score) ==
    [id_number |-> row.id_number,
     predicted_elimination_flag |-> score.flag,
     elimination_probability |-> score.probability,
     recommendation |-> IF score.flag = 1 THEN "ELIMINATE" ELSE "KEEP",
     confidence |-> IF Abs(score.probability - 50) > 30
                    THEN "HIGH" ELSE "MODERATE"]

\* Variant: the file is examined before the model is looked at.
score_cml_data_FileFirst(prediction) ==
    LET missing_cols == REQUIRED_COLUMNS \ df.columns
        missing_features == FEATURE_COLUMNS \ df.columns
        results == [i \in DOMAIN df.rows |-> ScoreResult(df.rows[i], prediction.scores[i])]
    IN  IF request.filename = ""
        THEN HTTPException(400, "No filename provided", {})
        ELSE IF Suffix(request.filename) \notin ALLOWED_EXTENSIONS
        THEN HTTPException(400, "Unsupported file format", {})
        ELSE IF request.body = "empty"
        THEN HTTPException(400, "Uploaded file is empty", {})
        ELSE IF request.body = "garbled"
        THEN HTTPException(400, "Failed to parse file", {})
        ELSE IF df.rows = <<>>
        THEN HTTPException(500, "Error processing file", {})
        ELSE IF missing_cols # {}
        THEN HTTPException(400, "Missing required columns", missing_cols)
        ELSE IF missing_features # {}
        THEN HTTPException(400, "Missing feature columns for model prediction",
                           missing_features)
        ELSE IF model = "None"
        THEN HTTPException(503, "ML model not loaded", {})
        ELSE IF prediction.raised
        THEN HTTPException(500, "Error during prediction", {})
        ELSE [NoResponse EXCEPT !.status = 200,
                                !.rows_scored = Len(df.rows),
                                !.results = First100(results),
                                !.total_results = Len(results)]

\* The response of score_cml_data for the uploaded file and the given
\* outcome of the prediction calls.
score_cml_data(prediction) ==
    LET missing_cols == REQUIRED_COLUMNS \ df.columns
        missing_features == FEATURE_COLUMNS \ df.columns
        results == [i \in DOMAIN df.rows |-> ScoreResult(df.rows[i], prediction.scores[i])]
    IN  IF model = "None"
        THEN HTTPException(503, "ML model not loaded", {})
        ELSE IF request.filename = ""
        THEN HTTPException(400, "No filename provided", {})
        ELSE IF Suffix(request.filename) \notin ALLOWED_EXTENSIONS
        THEN HTTPException(400, "Unsupported file format", {})
        ELSE IF request.body = "empty"
        THEN HTTPException(400, "Uploaded file is empty", {})
        ELSE IF request.body = "garbled"
        THEN HTTPException(400, "Failed to parse file", {})
        ELSE IF df.rows = <<>>
        THEN HTTPException(500, "Error processing file", {})
        ELSE IF missing_cols # {}
        THEN HTTPException(400, "Missing required columns", missing_cols)
        ELSE IF missing_features # {}
        THEN HTTPException(400, "Missing feature columns for model prediction",
                           missing_features)
        ELSE IF prediction.raised
        THEN HTTPException(500, "Error during prediction", {})
        ELSE [NoResponse EXCEPT !.status = 200,
                                !.rows_scored = Len(df.rows),
                                !.results = First100(results),
                                !.total_results = Len(results)]

\* The response of upload_cml_data (main.py lines 206-218) after the
\* UploadResponse model has shaped it: the handler returns no validation
\* part, so the optional validation field of the response is None.
upload_cml_data ==
    IF request.filename = ""
    THEN HTTPException(400, "No filename provided", {})
    ELSE IF Suffix(request.filename) \notin ALLOWED_EXTENSIONS
    THEN HTTPException(400, "Unsupported file format", {})
    ELSE IF request.body = "empty"
    THEN HTTPException(400, "Uploaded file is empty", {})
    ELSE IF request.body = "garbled"
    THEN HTTPException(400, "Failed to parse file", {})
    ELSE IF df.rows = <<>>
    THEN HTTPException(500, "Error processing file", {})
    ELSE [NoResponse EXCEPT !.status = 200,
                            !.rows = Len(df.rows),
                            !.columns = df.columns,
                            !.validation = NoValidation]

InitScore ==
    /\ BatchIdle
    /\ ScheduleIdle
    /\ StoreIdle
    /\ df = NoFrameLoaded
    /\ validation = NoValidation
    /\ model \in {"None", "loaded"}
    /\ request = NoRequest
    /\ response = NoResponse

Paths == {"/upload-cml-data", "/score-cml-data"}

\* A client posts a file to one of the two endpoints.
PostFile(path, filename, body, columns, rows) ==
    /\ request = NoRequest
    /\ IF body = "table" THEN columns # {} ELSE columns = {} /\ rows = <<>>
    /\ "last_inspection_date" \notin columns =>
           \A i \in DOMAIN rows : rows[i].last_inspection_date = NoDate
    /\ request' = [path |-> path, filename |-> filename, body |-> body]
    /\ df' = [columns |-> columns, rows |-> rows]
    /\ UNCHANGED <<scheduleVars, validation, model, response, storeVars, batchVars>>

\* The upload handler runs to its response.
UploadCmlData ==
    /\ request.path = "/upload-cml-data"
    /\ response = NoResponse
    /\ response' = upload_cml_data
    /\ UNCHANGED <<scheduleVars, dataVars, model, request, storeVars, batchVars>>

\* The scoring handler runs to its response.
ScoreCmlData(prediction) ==
    /\ request.path = "/score-cml-data"
    /\ response = NoResponse
    /\ response' = score_cml_data(prediction)
    /\ UNCHANGED <<scheduleVars, dataVars, model, request, storeVars, batchVars>>

NextScore ==
    \/ /\ request = NoRequest
       /\ \E path \in Paths, filename \in Filenames, body \in Bodies,
             columns \in ScoreColumnSets \cup {{}}, rows \in ScoreRowSeqs :
              PostFile(path, filename, body, columns, rows)
    \/ UploadCmlData
    \/ \E prediction \in Predictions(Len(df.rows)) : ScoreCmlData(prediction)

SpecScore == InitScore /\ [][NextScore]_vars

-----------------------------------------------------------------------------
(* Adding overrides one call at a time *)

\* SMEOverrideManager.add_override: validates the decision and the reason,
\* then appends the record to the store.
add_override(override, override_file) ==
    IF SMEOverride(override)
    THEN [file |-> CompleteFile(Appended(load_sme_overrides(override_file).overrides,
                                         IsoFormatted(override))),
          raised |-> FALSE, override_data |-> override]
    ELSE [file |-> override_file, raised |-> TRUE, override_data |-> override]

InitStore ==
    /\ BatchIdle
    /\ ScheduleIdle
    /\ ApiIdle
    /\ df = NoFrameLoaded
    /\ validation = NoValidation
    /\ file \in {AbsentFile, CompleteFile(<<>>)}
    /\ log = <<>>
    /\ last = NoCall
    /\ writers = [w \in Writers |-> NoWriter]
    /\ reader = NoRead

\* The effect of one finished call on the store, the history of successful
\* adds and the record of the last call.
Finished(result, override_data, fault) ==
    /\ file' = result.file
    /\ log' = IF result.raised THEN log ELSE Append(log, IsoFormatted(override_data))
    /\ last' = [outcome |-> IF result.raised THEN "raised" ELSE "returned",
                fault |-> fault,
                submitted |-> override_data,
                override_data |-> result.override_data]
    /\ UNCHANGED <<scheduleVars, dataVars, apiVars, writers, reader, batchVars>>

\* A caller saves a dictionary directly with save_sme_override.
SaveSmeOverride(override_data, fault) ==
    /\ Len(log) < MaxAdds
    /\ Finished(save_sme_override(override_data, file, fault), override_data, fault)

\* POST /sme-override: the body is validated against the SMEOverride schema
\* (a 422 response otherwise) and handed to the manager.
AddSmeOverride(override) ==
    /\ Len(log) < MaxAdds
    /\ load_sme_overrides(file).raised = FALSE
    /\ IF SMEOverride(override)
       THEN Finished(add_override(override, file), override, "none")
       ELSE Finished([file |-> file, raised |-> TRUE, override_data |-> override],
                     override, "none")

\* The dashboard form: every field must be filled in, the decision comes
\* from a select box of KEEP and ELIMINATE, and the manager is called; an
\* exception is shown as an error.
SubmitOverrideForm(override) ==
    /\ Len(log) < MaxAdds
    /\ load_sme_overrides(file).raised = FALSE
    /\ override.sme_decision \in {"KEEP", "ELIMINATE"}
    /\ ReasonLength(override.reason) > 0
    /\ Finished(add_override(override, file), override, "none")

NextStore ==
    \/ \E override_data \in Overrides, fault \in Faults :
           SaveSmeOverride(override_data, fault)
    \/ \E override \in Overrides : AddSmeOverride(override)
    \/ \E override \in Overrides : SubmitOverrideForm(override)

SpecStore == InitStore /\ [][NextStore]_vars

-----------------------------------------------------------------------------
(* Concurrent adds and a concurrent read: save_sme_override takes no lock,  *)
(* so the steps of several calls on the same file interleave.               *)

\* The record that writer w adds
WriterData(w) == Override(1, "KEEP", "remeasured on site", w, DateTime(0))

\* A record stored before the writers start
StoredBefore == IsoFormatted(Override(1, "ELIMINATE", "remeasured on site", 1, DateTime(0)))

InitConcurrent ==
    /\ BatchIdle
    /\ ScheduleIdle
    /\ ApiIdle
    /\ df = NoFrameLoaded
    /\ validation = NoValidation
    /\ file \in {AbsentFile, CompleteFile(<<StoredBefore>>)}
    /\ log = <<>>
    /\ last = NoCall
    /\ writers = [w \in Writers |-> NoWriter]
    /\ reader = NoRead

\* Lines 87-92 of writer w: the list is loaded, the date is converted and
\* the record is appended to the writer's own copy of the list.
WriterLoad(w) ==
    /\ writers[w].pc = "start"
    /\ LET loaded == load_sme_overrides(file)
       IN  writers' =
               [writers EXCEPT ![w] =
                    IF loaded.raised
                    THEN [pc |-> "raised", overrides |-> <<>>]
                    ELSE [pc |-> "loaded",
                          overrides |-> Appended(loaded.overrides,
                                                 IsoFormatted(WriterData(w)))]]
    /\ UNCHANGED <<scheduleVars, dataVars, apiVars, file, log, last, reader, batchVars>>

\* Line 96 of writer w: open(override_file, 'w') truncates the file.
WriterOpen(w) ==
    /\ writers[w].pc = "loaded"
    /\ file' = TruncatedFile
    /\ writers' = [writers EXCEPT ![w].pc = "opened"]
    /\ UNCHANGED <<scheduleVars, dataVars, apiVars, log, last, reader, batchVars>>

\* Line 97 of writer w and the end of the with block: the writer's list is
\* written and the file is closed; the call returns.
WriterDump(w) ==
    /\ writers[w].pc = "opened"
    /\ file' = CompleteFile(writers[w].overrides)
    /\ writers' = [writers EXCEPT ![w].pc = "returned"]
    /\ UNCHANGED <<scheduleVars, dataVars, apiVars, log, last, reader, batchVars>>

\* A reader calls load_sme_overrides once, at any moment.
ReaderLoad ==
    /\ reader.pc = "start"
    /\ LET loaded == load_sme_overrides(file)
       IN  reader' = [pc |-> "done", raised |-> loaded.raised,
                      overrides |-> loaded.overrides]
    /\ UNCHANGED <<scheduleVars, dataVars, apiVars, file, log, last, writers, batchVars>>

NextConcurrent ==
    \/ \E w \in Writers : WriterLoad(w)
    \/ \E w \in Writers : WriterOpen(w)
    \/ \E w \in Writers : WriterDump(w)
    \/ ReaderLoad

SpecConcurrent == InitConcurrent /\ [][NextConcurrent]_vars

-----------------------------------------------------------------------------
(* The report endpoint of app/main_enhanced.py with the stored overrides *)

\* Rows of the uploaded file; the feature values are opaque to the handler.
ReportRows == [id_number : 1..MaxId]

ReportRowSeqs == UNION {[1..n -> ReportRows] : n \in 0..MaxRows}

\* model.predict and predict_proba for one row: a marginal KEEP or a
\* confident ELIMINATE (probability of elimination in percent).
ReportScores ==
    {[flag |-> 0, probability |-> 45], [flag |-> 1, probability |-> 90]}

\* Stores of well-formed overrides
ValidOverrides == {override \in Overrides : SMEOverride(override)}

OverrideStores ==
    {AbsentFile}
    \cup {CompleteFile([i \in DOMAIN overrides |-> IsoFormatted(overrides[i])]) :
              overrides \in UNION {[1..n -> ValidOverrides] : n \in 0..MaxAdds}}

\* 'HIGH' if max(p) > 0.8 else 'MEDIUM' if max(p) > 0.6 else 'LOW'
ConfidenceLevel(probability) ==
    LET highest == IF probability > 100 - probability
                   THEN probability ELSE 100 - probability
    IN  IF highest > 80 THEN "HIGH" ELSE IF highest > 60 THEN "MEDIUM" ELSE "LOW"

\* The columns that generate_report adds to one row (lines 248-251)
Predicted(row, score) ==
    [id_number |-> row.id_number,
     predicted_elimination |-> score.flag,
     elimination_probability |-> score.probability,
     recommendation |-> IF score.flag = 1 THEN "ELIMINATE" ELSE "KEEP",
     confidence_level |-> ConfidenceLevel(score.probability)]

\* The position of the most recently appended override for the id, or 0
RECURSIVE LatestOverride(_, _, _)
LatestOverride(overrides, id_number, i) ==
    IF i = 0 THEN 0
    ELSE IF overrides[i].id_number = id_number THEN i
    ELSE LatestOverride(overrides, id_number, i - 1)

\* SMEOverrideManager.apply_overrides_to_predictions: for a row with a stored
\* override the human decision becomes the final decision; the columns of
\* the model are kept as they are.
apply_overrides_to_predictions(rows, overrides) ==
    [i \in DOMAIN rows |->
        LET k == LatestOverride(overrides, rows[i].id_number, Len(overrides))
        IN  [id_number |-> rows[i].id_number,
             predicted_elimination |-> rows[i].predicted_elimination,
             elimination_probability |-> rows[i].elimination_probability,
             recommendation |-> rows[i].recommendation,
             confidence_level |-> rows[i].confidence_level,
             sme_override |-> k # 0,
             final_decision |-> IF k # 0 THEN overrides[k].sme_decision
                                ELSE rows[i].recommendation]]

IsElimination(row) == row.predicted_elimination = 1
IsKeep(row) == row.predicted_elimination = 0
IsMarginal(row) == row.elimination_probability > 40 /\ row.elimination_probability < 60

\* predictions_df[predictions_df['predicted_elimination'] == 1]
CountedEliminations(predictions_df) == SelectSeq(predictions_df, IsElimination)

First20(rows) == SubSeq(rows, 1, IF Len(rows) < 20 THEN Len(rows) ELSE 20)

IdsOf(rows) == [i \in DOMAIN rows |-> rows[i].id_number]

\* generate_elimination_report(predictions_df): the summary, the top
\* candidates (the eliminations of the model all have one probability, so
\* nlargest keeps their order) and the marginal cases; the breakdowns by
\* commodity and feature type are left out.
generate_elimination_report(predictions_df) ==
    LET total_cmls == Len(predictions_df)
        eliminations == CountedEliminations(predictions_df)
        keep_cmls == SelectSeq(predictions_df, IsKeep)
    IN  [status |-> 200,
         summary |->
             [total_cmls |-> total_cmls,
              recommended_eliminations |-> Len(eliminations),
              recommended_keep |-> Len(keep_cmls),
              elimination_rate |->
                  IF total_cmls > 0
                  THEN PyRound(Rat(Len(eliminations) * 100, total_cmls), 10)
                  ELSE FromInt(0)],
         top_elimination_candidates |-> IdsOf(First20(eliminations)),
         marginal_cases |-> IdsOf(SelectSeq(predictions_df, IsMarginal))]

InitReport ==
    /\ BatchIdle
    /\ ScheduleIdle
    /\ validation = NoValidation
    /\ request = NoRequest
    /\ response = NoResponse
    /\ log = <<>>
    /\ last = NoCall
    /\ writers = [w \in Writers |-> NoWriter]
    /\ reader = NoRead
    /\ model \in {"None", "loaded"}
    /\ file \in OverrideStores
    /\ df \in {[columns |-> REQUIRED_COLUMNS, rows |-> rows] : rows \in ReportRowSeqs}

\* POST /generate-report without a model: status 500.
GenerateReportNoModel ==
    /\ report = NoReport
    /\ model = "None"
    /\ report' = [NoReport EXCEPT !.status = 500]
    /\ UNCHANGED <<scheduleVars, dataVars, apiVars, storeVars, scored,
                   forecast_df, forecast_response>>

\* POST /generate-report: the rows are scored, the overrides are applied and
\* the report is generated from the result.
GenerateReport(scores) ==
    /\ report = NoReport
    /\ model = "loaded"
    /\ LET predictions == [i \in DOMAIN df.rows |-> Predicted(df.rows[i], scores[i])]
           df_with_overrides ==
               apply_overrides_to_predictions(predictions,
                                              load_sme_overrides(file).overrides)
       IN  /\ scored' = df_with_overrides
           /\ report' = generate_elimination_report(df_with_overrides)
    /\ UNCHANGED <<scheduleVars, dataVars, apiVars, storeVars,
                   forecast_df, forecast_response>>

NextReport ==
    \/ GenerateReportNoModel
    \/ \E scores \in [1..Len(df.rows) -> ReportScores] : GenerateReport(scores)

SpecReport == InitReport /\ [][NextReport]_vars

-----------------------------------------------------------------------------
(* Batch forecasting: the CMLForecaster of app/forecasting and the          *)
(* /forecast-remaining-life endpoint of app/main_enhanced.py                *)

RAdd(x, y) == Rat(x[1] * y[2] + y[1] * x[2], x[2] * y[2])

\* The forecaster of the endpoint: settings.DEFAULT_MINIMUM_THICKNESS and
\* settings.SAFETY_FACTOR
minimum_thickness == FromInt(3)
safety_factor == Rat(3, 2)

\* CMLForecaster.calculate_remaining_life: MAX_LIFE for a rate of zero,
\* otherwise (thickness - minimum) / rate clamped to [0, MAX_LIFE].
calculate_remaining_life(current_thickness, corrosion_rate, min_thickness) ==
    IF RLe(corrosion_rate, FromInt(0)) THEN FromInt(MAX_LIFE)
    ELSE PyMax(FromInt(0),
               PyMin(RDiv(RSub(current_thickness, min_thickness), corrosion_rate),
                     FromInt(MAX_LIFE)))

\* CMLForecaster.forecast_single_cml: the three calculators in sequence, the
\* next date counted from the last inspection date, or from today without one.
forecast_single_cml(row, today) ==
    LET remaining_life_years ==
            calculate_remaining_life(row.thickness_mm, row.average_corrosion_rate,
                                     minimum_thickness)
        interval_years == InspectionIntervalYears(remaining_life_years, safety_factor)
        as_of == IF row.last_inspection_date = NoDate
                 THEN today ELSE row.last_inspection_date
    IN  [id_number |-> row.id_number,
         remaining_life_years |-> remaining_life_years,
         next_inspection_date |-> NextInspection(as_of, IntervalDays(interval_years)),
         recommended_inspection_frequency_months |-> IntervalMonths(interval_years),
         risk_level |-> RiskLevel(remaining_life_years)]

\* A batch that comes back in the opposite order.
forecast_batch_Reversed(rows, today) ==
    [i \in DOMAIN rows |-> forecast_single_cml(rows[Len(rows) + 1 - i], today)]

\* CMLForecaster.forecast_batch: forecast_single_cml row by row, in the
\* order of the input.
forecast_batch(rows, today) ==
    [i \in DOMAIN rows |-> forecast_single_cml(rows[i], today)]

\* The sum of the remaining lives of forecasts lo..hi
RECURSIVE LifeBetween(_, _, _)
LifeBetween(forecasts, lo, hi) ==
    IF lo > hi THEN FromInt(0)
    ELSE IF lo = hi THEN forecasts[lo].remaining_life_years
    ELSE LET mid == (lo + hi) \div 2
         IN  RAdd(LifeBetween(forecasts, lo, mid), LifeBetween(forecasts, mid + 1, hi))

TotalLife(forecasts) == LifeBetween(forecasts, 1, Len(forecasts))

\* The mean of the column as pandas takes it: NaN for no rows.
MeanRemainingLife_OfColumn(forecasts) ==
    IF forecasts = <<>> THEN NaN
    ELSE RDiv(TotalLife(forecasts), FromInt(Len(forecasts)))

\* The mean remaining life, 0.0 for no rows
MeanRemainingLife(forecasts) ==
    IF forecasts = <<>> THEN FromInt(0)
    ELSE RDiv(TotalLife(forecasts), FromInt(Len(forecasts)))

RiskCount(forecasts, level) ==
    Cardinality({i \in DOMAIN forecasts : forecasts[i].risk_level = level})

\* CMLForecaster.generate_forecast_summary: the mean remaining life, the
\* number of CMLs of each risk level and the number of next inspections
\* within 12 months of today.
generate_forecast_summary(rows, today) ==
    LET forecasts == forecast_batch(rows, today)
    IN  [total_cmls |-> Len(forecasts),
         avg_remaining_life_years |-> MeanRemainingLife(forecasts),
         risk_distribution |->
             [CRITICAL |-> RiskCount(forecasts, "CRITICAL"),
              HIGH |-> RiskCount(forecasts, "HIGH"),
              MEDIUM |-> RiskCount(forecasts, "MEDIUM"),
              LOW |-> RiskCount(forecasts, "LOW")],
         inspections_needed_next_12_months |->
             Cardinality({i \in DOMAIN forecasts :
                              forecasts[i].next_inspection_date <= today + 365})]

\* Measurements with a life of 50, 7, 3 and 0 years
Measurements ==
    {[thickness_mm |-> FromInt(10), average_corrosion_rate |-> FromInt(0)],
     [thickness_mm |-> FromInt(10), average_corrosion_rate |-> FromInt(1)],
     [thickness_mm |-> FromInt(6), average_corrosion_rate |-> FromInt(1)],
     [thickness_mm |-> FromInt(2), average_corrosion_rate |-> FromInt(1)]}

ForecastRow(id_number, measurement, last_inspection_date) ==
    [id_number |-> id_number,
     thickness_mm |-> measurement.thickness_mm,
     average_corrosion_rate |-> measurement.average_corrosion_rate,
     last_inspection_date |-> last_inspection_date]

ForecastRows ==
    {ForecastRow(id, measurement, date) :
         id \in 1..MaxId, measurement \in Measurements, date \in InspectionDates}

\* The batches forecast: every sequence of up to MaxRows rows, and one batch
\* longer than the 100 forecasts of a response.
LongBatch ==
    [i \in 1..(100 + 1) |->
        ForecastRow(i, [thickness_mm |-> FromInt(10),
                        average_corrosion_rate |-> FromInt(1)], NoDate)]

Batches == UNION {[1..n -> ForecastRows] : n \in 0..MaxRows} \cup {LongBatch}

ForecastColumns ==
    {"id_number", "average_corrosion_rate", "thickness_mm", "last_inspection_date"}

ForecastColumnSets ==
    {ForecastColumns, ForecastColumns \ {"last_inspection_date"},
     ForecastColumns \ {"id_number"}, ForecastColumns \ {"thickness_mm"}}

InitForecast ==
    /\ BatchIdle
    /\ ScheduleIdle
    /\ ApiIdle
    /\ StoreIdle
    /\ validation = NoValidation
    /\ df \in {[columns |-> columns, rows |-> rows] :
                   columns \in ForecastColumnSets, rows \in Batches}

\* POST /forecast-remaining-life for a file without one of the two required
\* columns: status 400.
ForecastMissingColumns ==
    /\ forecast_response = NoForecastResponse
    /\ {"average_corrosion_rate", "thickness_mm"} \ df.columns # {}
    /\ forecast_response' = [NoForecastResponse EXCEPT !.status = 400]
    /\ UNCHANGED <<scheduleVars, dataVars, apiVars, storeVars, scored, report,
                   forecast_df>>

\* POST /forecast-remaining-life: the batch is forecast and summarised; the
\* response carries the first 100 forecasts, or none when the forecast frame
\* has no id_number column.
ForecastRemainingLife ==
    /\ forecast_response = NoForecastResponse
    /\ {"average_corrosion_rate", "thickness_mm"} \ df.columns = {}
    /\ LET rows == [i \in DOMAIN df.rows |->
                        IF "last_inspection_date" \in df.columns THEN df.rows[i]
                        ELSE [df.rows[i] EXCEPT !.last_inspection_date = NoDate]]
           batch == forecast_batch(rows, now)
           forecasts == IF "id_number" \in df.columns THEN batch ELSE <<>>
       IN  /\ forecast_df' = batch
           /\ forecast_response' =
                  [status |-> 200,
                   forecasts |-> First100(forecasts),
                   summary |-> generate_forecast_summary(rows, now)]
    /\ UNCHANGED <<scheduleVars, dataVars, apiVars, storeVars, scored, report>>

NextForecast ==
    \/ ForecastMissingColumns
    \/ ForecastRemainingLife

SpecForecast == InitForecast /\ [][NextForecast]_vars

-----------------------------------------------------------------------------
(* Properties of calculate_inspection_schedule *)

Returned == outcome = "returned"

Rate == record.average_corrosion_rate
Thickness == record.thickness_mm
Zero == FromInt(0)

\* (thickness - min_thickness) / corrosion_rate, for a positive rate
RawLife == RDiv(RSub(Thickness, params.min_thickness), Rate)

\* C1: for a corrosion rate > 0 the reported remaining life is
\* (thickness - min_thickness) / corrosion_rate capped at MAX_LIFE = 50 years,
\* so no input gives a remaining life above 50.
C1_LifeCappedAtMaxLife ==
    (Returned /\ RLt(Zero, Rate)) =>
        /\ RLe(schedule.remaining_life_years, FromInt(MAX_LIFE))
        /\ RLe(RawLife, FromInt(MAX_LIFE)) =>
               schedule.remaining_life_years = PyRound(RawLife, 10)

\* C2: a thickness at or below the minimum thickness with a corrosion rate > 0
\* gives a remaining life of 0, and the remaining life is never negative.
C2_LifeNeverNegative ==
    Returned =>
        /\ RLe(Zero, schedule.remaining_life_years)
        /\ (RLt(Zero, Rate) /\ RLe(Thickness, params.min_thickness)) =>
               schedule.remaining_life_years = Zero

\* C3: a corrosion rate of exactly 0 gives a remaining life of MAX_LIFE = 50
\* years for every thickness and minimum thickness.
C3_ZeroRateGivesMaxLife ==
    (Returned /\ Rate = Zero) =>
        /\ schedule.remaining_life_years = FromInt(MAX_LIFE)
        /\ frame.remaining_life_years = FromInt(MAX_LIFE)

\* C3 witness: a zero-rate record already below its minimum thickness has
\* been scheduled with a life of 50 years.
C3_Witness ==
    /\ Returned
    /\ Rate = Zero
    /\ RLt(Thickness, params.min_thickness)
    /\ schedule.remaining_life_years = FromInt(50)

\* C4: the risk level follows the strict ladder on the remaining life:
\* < 2 CRITICAL, else < 5 HIGH, else < 10 MEDIUM, else LOW; exactly 2, 5 and
\* 10 fall in the lower-risk tier, and exactly one level is assigned.
C4_RiskLadder ==
    Returned =>
        LET life == frame.remaining_life_years
            risk == schedule.risk_level
        IN  /\ risk \in {"CRITICAL", "HIGH", "MEDIUM", "LOW"}
            /\ (risk = "CRITICAL") <=> RLt(life, FromInt(2))
            /\ (risk = "HIGH") <=> (RLe(FromInt(2), life) /\ RLt(life, FromInt(5)))
            /\ (risk = "MEDIUM") <=> (RLe(FromInt(5), life) /\ RLt(life, FromInt(10)))
            /\ (risk = "LOW") <=> RLe(FromInt(10), life)

\* C4 witness: a remaining life of exactly 2.0 years classified HIGH.
C4_Witness ==
    /\ Returned
    /\ frame.remaining_life_years = FromInt(2)
    /\ schedule.risk_level = "HIGH"

\* C5: for every remaining life and every safety factor > 0 the recommended
\* inspection interval is a whole number of months within [12, 72].
C5_IntervalWithinBounds ==
    (Returned /\ RLt(Zero, params.safety_factor)) =>
        schedule.inspection_interval_months \in 12..72

\* C5 witness: a degenerate record (thickness below the minimum, negative
\* life) scheduled at the 12-month floor.
C5_Witness ==
    /\ Returned
    /\ RLt(frame.remaining_life_years, Zero)
    /\ schedule.inspection_interval_months = 12

\* Two calls for the same thickness, minimum thickness and safety factor, the
\* earlier with corrosion rate r1 and the later with r2, 0 <= r1 <= r2.
Compared ==
    /\ Returned
    /\ prior # <<>>
    /\ RLe(Zero, prior[1].corrosion_rate)

\* C6: remaining life is non-increasing in corrosion rate: for 0 <= r1 <= r2
\* the life for r1 is >= the life for r2.
C6_LifeNonIncreasingInRate ==
    Compared =>
        RLe(schedule.remaining_life_years, prior[1].schedule.remaining_life_years)

\* C7: the inspection interval is non-increasing in corrosion rate: for
\* 0 <= r1 <= r2 the months for r1 are >= the months for r2.
C7_IntervalNonIncreasingInRate ==
    Compared =>
        schedule.inspection_interval_months
            <= prior[1].schedule.inspection_interval_months

\* The interval in whole months (days) that stands for interval_years: the
\* truncation of 12 (365) times the years value.
MonthsOf(years, months) ==
    RLe(Rat(months, 12), years) /\ RLt(years, Rat(months + 1, 12))

DaysOf(years, days) ==
    RLe(Rat(days, 365), years) /\ RLt(years, Rat(days + 1, 365))

\* C8 as stated: the estimated thickness at next inspection is
\* thickness - corrosion_rate * (months / 12) for the months reported
\* (to the two decimals kept).
C8_EstimateFromReportedMonths ==
    Returned =>
        schedule.estimated_thickness_at_next_inspection =
            PyRound(RSub(Thickness,
                         RMul(Rate, Rat(schedule.inspection_interval_months, 12))), 100)

\* C8 amended: the estimated thickness is thickness - corrosion_rate *
\* interval_years to two decimals, where interval_years is the clamped years
\* value before any truncation; the months reported and the days added for
\* the next inspection date are the truncations of 12 and 365 times that same
\* value, so interval_years may exceed months / 12 by up to a month.
C8_EstimateFromIntervalYears ==
    Returned =>
        LET years == frame.inspection_interval_years
        IN  /\ schedule.estimated_thickness_at_next_inspection
                   = PyRound(RSub(Thickness, RMul(Rate, years)), 100)
            /\ MonthsOf(years, schedule.inspection_interval_months)
            /\ DaysOf(years, schedule.next_inspection_date - frame.today)

\* C8 witness: an interval that is not a whole number of months, and an
\* estimate that the whole months reported do not give.
C8_Witness ==
    /\ Returned
    /\ RLt(Rat(schedule.inspection_interval_months, 12), frame.inspection_interval_years)
    /\ schedule.estimated_thickness_at_next_inspection
           # PyRound(RSub(Thickness,
                               RMul(Rate, Rat(schedule.inspection_interval_months, 12))), 100)

\* C9: the next inspection date is last_inspection_date plus the recommended
\* interval when the record has one, and the current time plus the interval
\* only when it has none.
C9_NextDateFromLastInspection ==
    Returned =>
        LET from == IF record.last_inspection_date # NoDate
                        THEN record.last_inspection_date
                        ELSE frame.today
        IN  DaysOf(frame.inspection_interval_years, schedule.next_inspection_date - from)

\* C10: a negative corrosion rate or a non-positive thickness is rejected as
\* an error: no schedule is returned for it.
C10_BadMeasurementRejected ==
    (RLt(Rate, Zero) \/ RLe(Thickness, Zero)) => ~Returned

\* C10 for datasets: a dataset holding a negative corrosion rate or a
\* non-positive thickness is not declared valid.
C10_BadDatasetNotValid ==
    (/\ validation # NoValidation
     /\ required_columns \subseteq df.columns
     /\ \E i \in DOMAIN df.rows :
            df.rows[i].average_corrosion_rate < 0 \/ df.rows[i].thickness_mm <= 0)
        => ~validation.valid

-----------------------------------------------------------------------------
(* Properties of the scoring endpoint *)

Responded == response # NoResponse

\* C11: a record set that has no last_inspection_date (column absent, or a
\* value missing or unparseable) is processed using a default: no scoring
\* response reports the missing date as an error.
C11_MissingDateNeverAnError ==
    (/\ Responded
     /\ df.rows # <<>>
     /\ REQUIRED_COLUMNS \ {"last_inspection_date"} \subseteq df.columns
     /\ \/ "last_inspection_date" \notin df.columns
        \/ \E i \in DOMAIN df.rows : df.rows[i].last_inspection_date = NoDate)
        => "last_inspection_date" \notin response.missing

-----------------------------------------------------------------------------
(* Properties of the override store under one call at a time *)

AddReturned == last.outcome = "returned"

\* The last record of the store as load_sme_overrides gives it back
LastLoaded == load_sme_overrides(file).overrides[Len(load_sme_overrides(file).overrides)]

\* C12: starting from an empty or absent store, after K successful adds the
\* store holds exactly the K records added, in the order they were added and
\* with unchanged content; no add overwrites or removes a prior record, also
\* not one with the same id_number.
C12_AppendOnly ==
    /\ AddReturned => file = CompleteFile(log)
    /\ file.state # "truncated" => load_sme_overrides(file).overrides = log

\* C12 witness: two adds for the same id_number have returned and both
\* records are in the store, in the order they were added.
C12_Witness ==
    /\ AddReturned
    /\ Len(file.records) = 2
    /\ file.records[1].id_number = file.records[2].id_number
    /\ file.records[1] # file.records[2]
    /\ file.records = log

\* C13: an add whose decision is not KEEP or ELIMINATE, or whose reason is
\* shorter than 10 characters, fails with a validation error and leaves the
\* store unchanged, on every path by which an override is submitted.
C13_InvalidAddRejected ==
    [][~SMEOverride(last'.submitted) =>
           (last'.outcome = "raised" /\ file' = file)]_vars

\* C16: if the store cannot be read or written the add fails with an error
\* for the caller, and an add that returns normally has put the requested
\* record in the store.
C16_FailureSurfaced ==
    /\ last.fault # "none" => last.outcome = "raised"
    /\ file.state = "truncated" => last.outcome = "raised"
    /\ AddReturned =>
           /\ file.state = "complete"
           /\ load_sme_overrides(file).raised = FALSE
           /\ Len(file.records) > 0
           /\ LastLoaded = IsoFormatted(last.submitted)

\* C16 witness: a store holding one record could not be read, the add raised
\* and the store is as it was.
C16_Witness ==
    /\ last.fault = "read"
    /\ last.outcome = "raised"
    /\ Len(log) = 1
    /\ file = CompleteFile(log)

\* C17: the round trip of an override record is exact: the record loaded
\* back equals the submitted record in every field, and the caller's record
\* is the same before and after the save.
C17_RoundTripExact ==
    AddReturned =>
        /\ LastLoaded = last.submitted
        /\ last.override_data = last.submitted

-----------------------------------------------------------------------------
(* Properties of the override store under concurrent calls *)

WritersFinished == \A w \in Writers : writers[w].pc \in {"returned", "raised"}

Stored(override_data) ==
    \E i \in DOMAIN file.records : file.records[i] = IsoFormatted(override_data)

\* C14: when adds on the same store run concurrently, with their load, append
\* and write steps interleaved, every add that returned is in the final
\* store: no write is lost and the store is not corrupted.
C14_NoLostWrite ==
    WritersFinished =>
        /\ file.state # "truncated"
        /\ \A w \in Writers : writers[w].pc = "returned" => Stored(WriterData(w))

\* C15: a read that runs concurrently with an add observes the complete list
\* before the add or the complete list after it, never an empty, truncated
\* or partially written store.
C15_ReadSeesCompleteList ==
    reader.pc = "done" => reader.raised = FALSE

-----------------------------------------------------------------------------
(* Properties of the report with overrides *)

Reported == report.status = 200

StoredOverrides == load_sme_overrides(file).overrides

HumanDecision(id_number) ==
    StoredOverrides[LatestOverride(StoredOverrides, id_number, Len(StoredOverrides))].sme_decision

Overridden(id_number) ==
    LatestOverride(StoredOverrides, id_number, Len(StoredOverrides)) # 0

FinalCount(decision) ==
    Cardinality({i \in DOMAIN scored : scored[i].final_decision = decision})

\* C18: when overrides are applied to scored records, every record whose id
\* has a stored override carries the human decision as its final decision,
\* the recommendation of the model is still present, and the elimination
\* report generated afterwards counts the record by the human decision.
C18_ReportCountsHumanDecision ==
    Reported =>
        /\ \A i \in DOMAIN scored :
               Overridden(scored[i].id_number) =>
                   /\ scored[i].final_decision = HumanDecision(scored[i].id_number)
                   /\ scored[i].recommendation =
                          (IF scored[i].predicted_elimination = 1
                           THEN "ELIMINATE" ELSE "KEEP")
        /\ report.summary.recommended_eliminations = FinalCount("ELIMINATE")
        /\ report.summary.recommended_keep = FinalCount("KEEP")

-----------------------------------------------------------------------------
(* Properties of batch forecasting *)

Forecasted == forecast_response.status = 200

WellFormed == "id_number" \in df.columns

InInputOrder(forecasts, n) ==
    /\ Len(forecasts) = n
    /\ \A i \in 1..n : forecasts[i].id_number = df.rows[i].id_number

\* C19 as stated: for N well-formed input records batch forecasting returns
\* exactly N forecasts in the order of the input, the i-th carrying the id
\* of the i-th record.
C19_ResponseHasAllForecasts ==
    (Forecasted /\ WellFormed) =>
        /\ InInputOrder(forecast_df, Len(df.rows))
        /\ InInputOrder(forecast_response.forecasts, Len(df.rows))

\* C19: for N well-formed input records forecast_batch gives N forecasts in
\* the order of the input, the i-th carrying the id of the i-th record, and
\* the response of the endpoint carries the first min(N, 100) of them.
C19_ResponseHasFirst100 ==
    (Forecasted /\ WellFormed) =>
        /\ InInputOrder(forecast_df, Len(df.rows))
        /\ InInputOrder(forecast_response.forecasts,
                        IF Len(df.rows) < 100 THEN Len(df.rows) ELSE 100)
        /\ forecast_response.forecasts = First100(forecast_df)

\* C19 witness: a batch of more than 100 records has been forecast; the
\* response ends with the forecast of the 100th record.
C19_Witness ==
    /\ Forecasted
    /\ WellFormed
    /\ Len(df.rows) > 100
    /\ Len(forecast_df) = Len(df.rows)
    /\ Len(forecast_response.forecasts) = 100
    /\ forecast_response.forecasts[100].id_number = df.rows[100].id_number

\* C20: forecasting and summarising zero records raises no error: the batch
\* result is empty, every risk count and the next-12-months count are 0 and
\* the mean remaining life is 0.0.
C20_EmptyBatch ==
    (forecast_response # NoForecastResponse /\ df.rows = <<>>
        /\ {"average_corrosion_rate", "thickness_mm"} \subseteq df.columns) =>
        /\ Forecasted
        /\ forecast_df = <<>>
        /\ forecast_response.forecasts = <<>>
        /\ \A level \in {"CRITICAL", "HIGH", "MEDIUM", "LOW"} :
               forecast_response.summary.risk_distribution[level] = 0
        /\ forecast_response.summary.inspections_needed_next_12_months = 0
        /\ forecast_response.summary.avg_remaining_life_years = FromInt(0)

\* C20 witness: a file with the columns and no rows has been forecast.
C20_Witness ==
    /\ Forecasted
    /\ df.rows = <<>>
    /\ WellFormed
    /\ forecast_response.summary.total_cmls = 0

-----------------------------------------------------------------------------
(* Further properties of calculate_inspection_schedule *)

\* remaining_life_years / safety_factor, the interval before it is clamped
RawInterval == RDiv(frame.remaining_life_years, params.safety_factor)

\* C24: the interval is remaining_life / safety_factor in years, clamped to
\* [1, 6] years, and only then converted to months by truncating 12 x years;
\* the clamp acts on the years, so the years behind the date are clamped too.
C24_ClampYearsThenTruncate ==
    Returned =>
        LET years == frame.inspection_interval_years
            months == schedule.inspection_interval_months
        IN  /\ RLt(RawInterval, FromInt(1)) => years = FromInt(1)
            /\ RLt(FromInt(6), RawInterval) => years = FromInt(6)
            /\ (RLe(FromInt(1), RawInterval) /\ RLe(RawInterval, FromInt(6))) =>
                   years = RawInterval
            /\ months * years[2] <= 12 * years[1]
            /\ 12 * years[1] < (months + 1) * years[2]

\* C24 witness: an interval strictly inside (1, 6) years whose 12-fold has a
\* fractional part of at least one half, reported truncated.
C24_Witness ==
    /\ Returned
    /\ RLt(FromInt(1), RawInterval)
    /\ RLt(RawInterval, FromInt(6))
    /\ LET twelve == RMul(frame.inspection_interval_years, FromInt(12))
       IN  /\ 2 * (twelve[1] - Floor(twelve) * twelve[2]) >= twelve[2]
           /\ schedule.inspection_interval_months = Floor(twelve)

\* the risk ladder of lines 124-131 read on a value
Ladder(life) ==
    IF RLt(life, FromInt(2)) THEN "CRITICAL"
    ELSE IF RLt(life, FromInt(5)) THEN "HIGH"
    ELSE IF RLt(life, FromInt(10)) THEN "MEDIUM"
    ELSE "LOW"

\* C27 as stated: the returned risk_level is the level the ladder assigns to
\* the returned (one-decimal) remaining_life_years.
C27_RiskMatchesReturnedLife ==
    Returned => schedule.risk_level = Ladder(schedule.remaining_life_years)

\* C27, amended: the returned risk_level is the ladder's level of the
\* remaining life before rounding; it differs from the level of the returned
\* value only when rounding up lands on a threshold (2.0, 5.0 or 10.0).
C27_RiskMatchesUnroundedLife ==
    Returned =>
        /\ schedule.risk_level = Ladder(frame.remaining_life_years)
        /\ schedule.risk_level # Ladder(schedule.remaining_life_years) =>
               /\ schedule.remaining_life_years \in
                      {FromInt(2), FromInt(5), FromInt(10)}
               /\ RLt(frame.remaining_life_years, schedule.remaining_life_years)

\* C27 witness: a life of 2 / 1.01 = 1.98 years returned as 2.0 with the
\* level CRITICAL.
C27_Witness ==
    /\ Returned
    /\ schedule.remaining_life_years = FromInt(2)
    /\ RLt(frame.remaining_life_years, FromInt(2))
    /\ schedule.risk_level = "CRITICAL"

\* rate > 0, thickness >= minimum thickness, safety factor >= 1
Serviceable ==
    /\ RLt(Zero, Rate)
    /\ RLe(params.min_thickness, Thickness)
    /\ RLe(FromInt(1), params.safety_factor)

-----------------------------------------------------------------------------
(* Failure atomicity of the override store *)

\* C29: if an add fails or is interrupted at any step (while loading, after
\* the file is opened for writing, or during serialization), the records
\* stored before the add are still all present and readable afterwards.
C29_FailedAddKeepsStore ==
    (last.outcome = "raised" /\ log # <<>>) =>
        /\ load_sme_overrides(file).raised = FALSE
        /\ load_sme_overrides(file).overrides = log

-----------------------------------------------------------------------------
(* Properties of validate_cml_dataframe *)

Validated == validation # NoValidation

\* some id_number occurs in two rows of the frame
RepeatedIds ==
    {df.rows[j].id_number : j \in
        {j \in DOMAIN df.rows :
            \E i \in 1..(j - 1) : df.rows[i].id_number = df.rows[j].id_number}}

\* C23: a dataset that has all required columns and repeated id_number
\* values is still reported valid: the duplicates produce no error and no
\* rejection, only a warning, which lists the repeated ids.
C23_DuplicatesTolerated ==
    (Validated /\ required_columns \subseteq df.columns /\ RepeatedIds # {}) =>
        /\ validation.valid = TRUE
        /\ validation.errors = <<>>
        /\ \E w \in DOMAIN validation.warnings :
               /\ validation.warnings[w].kind = "duplicate_ids"
               /\ {validation.warnings[w].ids[k] :
                       k \in DOMAIN validation.warnings[w].ids} = RepeatedIds

\* C23 witness: two rows with the same id validated as valid with a warning.
C23_Witness ==
    /\ Validated
    /\ Len(df.rows) = 2
    /\ df.rows[1].id_number = df.rows[2].id_number
    /\ validation.valid = TRUE
    /\ validation.warnings # <<>>

\* C30: every result has valid = false exactly when its errors list is
\* non-empty, and always carries the statistics the dashboard reads
\* (total_records, avg_corrosion_rate, avg_thickness), valid or not.
C30_ResultCarriesStatistics ==
    Validated =>
        /\ (validation.valid = FALSE) <=> (validation.errors # <<>>)
        /\ validation.stats # NoStats
        /\ {"total_records", "avg_corrosion_rate", "avg_thickness"}
               \subseteq DOMAIN validation.stats

-----------------------------------------------------------------------------
(* Properties of the upload and scoring endpoints of app/main.py *)

Uploaded == Responded /\ request.path = "/upload-cml-data"

Scored == Responded /\ request.path = "/score-cml-data"

\* The file has a name with an allowed extension
NamedFile ==
    request.filename # "" /\ Suffix(request.filename) \in ALLOWED_EXTENSIONS

\* The file has such a name and parses to a table of at least one row
WellFormedFile == NamedFile /\ request.body = "table" /\ df.rows # <<>>

\* The errors and warnings of the validation part of the response
Findings ==
    {response.validation.errors[i] : i \in DOMAIN response.validation.errors}
    \cup {response.validation.warnings[i] : i \in DOMAIN response.validation.warnings}

\* C21: uploading a file that lacks required columns still succeeds (status
\* 200), and the validation part of the response reports errors or warnings
\* that name the missing columns.
C21_UploadReportsMissingColumns ==
    (Uploaded /\ WellFormedFile /\ required_columns \ df.columns # {}) =>
        /\ response.status = 200
        /\ \E finding \in Findings :
               /\ finding.kind = "missing_columns"
               /\ finding.columns = required_columns \ df.columns

\* C22: a scoring request for a well-formed file carrying the six CML
\* columns ends with status 500 when no model is loaded and with status 200
\* when a model is loaded (500 again if the prediction itself fails); no
\* other status is returned.
C22_SixColumnsScored ==
    (Scored /\ WellFormedFile /\ df.columns = required_columns) =>
        /\ model = "None" => response.status = 500
        /\ response.status \in {200, 500}

\* The model was called: the response is a success or a prediction failure
ModelInvoked ==
    response.status = 200 \/ response.error = "Error during prediction"

=============================================================================
